---- MODULE Spec2Model ----
(***************************************************************************)
(* Model of the backend voice pipeline (src/backend/src/voice/pipeline.py) *)
(* with its VAD, STT and TTS components (vad.py, stt.py, tts.py) and the   *)
(* event bus (src/backend/src/events.py).                                  *)
(*                                                                         *)
(* Execution contexts:                                                     *)
(*   - the asyncio event loop: start(), stop(), speak() and _handle_speech *)
(*     are coroutines; each action below is one run of a coroutine between *)
(*     two awaits.  sd.play .. sd.wait block the loop thread, so while a   *)
(*     playback is in progress no coroutine runs (loop_at = "playing").    *)
(*   - the PortAudio callback thread: _audio_callback runs whenever some   *)
(*     input stream is active, concurrently with the loop thread.          *)
(***************************************************************************)
EXTENDS Integers, Sequences, FiniteSets, TLC

\* ------------------------------------------------------------------ bounds
MaxStreams == 2      \* input streams ever constructed in one run
MaxSpeaking == 2     \* speak() coroutines suspended on synthesis at once
MaxBuffer == 25      \* chunks the segment buffer is let grow to
MaxFlushed == 2      \* segments ever handed to transcription in one run
MaxBurst == 2        \* chunks of one utterance in the runs that exercise the lifecycle
MaxSegments == 2     \* segments in one result of the Whisper model
MaxSubs == 3         \* subscriptions held by the event bus at once
MaxUtterance == 3    \* chunks in audio_buffer up to which speech chunks are followed
MaxRecorded == 2     \* chunks recorded in one turn of the terminal chat
MaxQueued == 2       \* reply chunks waiting in audio_in_queue
MaxReplies == 2      \* reply turns owed by the session at once

\* ------------------------------------------------------- program constants
VAD_CHUNK_SAMPLES == 512
sample_rate == 16000
\* MIN_SPEECH_DURATION = 0.8 seconds, kept exact as the fraction 8 / 10
MIN_SPEECH_DURATION_NUM == 8
MIN_SPEECH_DURATION_DEN == 10
\* the VAD threshold 0.5 and the confidences, in hundredths
vad_threshold == 50

ConfValues == {10, 50, 80}
Texts == {"", "hello"}
NoStream == 0
NoChunk == <<>>
StreamIds == 1..MaxStreams
EventTypes == {"transcript:ready", "voice:speak"}
Handlers == {"ha", "hb"}
NoEmit == [status |-> "none"]

VARIABLES
    running,         \* VoicePipeline._running
    speech_buffer,   \* VoicePipeline._speech_buffer: sequence of chunk ids
    stream,          \* VoicePipeline._stream: NoStream or a stream id
    loop,            \* VoicePipeline._loop is not None
    models_loaded,   \* VoicePipeline._models_loaded
    gemini_client,   \* VoicePipeline._gemini_client is not None
    vad_model,       \* vad._model is not None
    vad_is_speaking, \* vad._is_speaking
    tts_model,       \* tts._model is not None
    api_key,         \* settings.gemini_api_key is non-empty
    streams,         \* device state of every sd.InputStream object
    loop_at,         \* what the event loop thread is doing
    starting,        \* start() coroutines awaiting to_thread(_load_models)
    synth,           \* speak() coroutines awaiting to_thread(tts.synthesize), per text
    pending,         \* _handle_speech coroutines scheduled or in flight: their audio
    failed,          \* numbers of the segments whose transcription raised
    nflushed,        \* segments handed to transcription so far
    overChunk,       \* a chunk that was buffered when speak() was last called mid-segment
    last,            \* the last operation step and the external calls it made
    stt_model,       \* stt._model is not None
    call,            \* the last direct call on vad, stt or tts: its input and outcome
    handlers,        \* EventBus._handlers: for every event type its list of handlers
    subs,            \* the subscriptions in force, as <<type, handler>> in the order made
    emit,            \* the emit() in progress or last completed, or NoEmit
    local_vad_model,    \* local VoicePipeline._vad_model is not None
    local_stt_pipeline, \* local VoicePipeline._stt_pipeline is not None
    local_running,      \* local VoicePipeline._running
    audio_buffer,       \* listen(): the number of chunks in audio_buffer
    silent_count,       \* listen(): silent_count
    is_speaking,        \* listen(): is_speaking
    listen_at,          \* where the listen() generator stands
    heard,              \* the last step of the local pipeline
    state,              \* AudioLoop.state
    recorded,           \* AudioLoop.audio_buffer: the number of chunks recorded
    audio_in_queue,     \* AudioLoop.audio_in_queue: the number of chunks queued
    replies,            \* reply turns the Gemini session still owes
    first_chunk,        \* receive_audio: first_chunk of the turn being read
    receive_at,         \* where receive_audio stands
    did                 \* the last step of the AudioLoop

pipeVars == <<running, speech_buffer, stream, loop, models_loaded, gemini_client>>
vadVars == <<vad_model, vad_is_speaking>>
taskVars == <<loop_at, starting, synth, pending, failed>>
vars == <<running, speech_buffer, stream, loop, models_loaded, gemini_client,
          vad_model, vad_is_speaking, tts_model, api_key, streams, loop_at,
          starting, synth, pending, failed, nflushed, overChunk, last,
          stt_model, call, handlers, subs, emit,
          local_vad_model, local_stt_pipeline, local_running, audio_buffer,
          silent_count, is_speaking, listen_at, heard,
          state, recorded, audio_in_queue, replies, first_chunk, receive_at, did>>

busVars == <<handlers, subs, emit>>

chatVars == <<state, recorded, audio_in_queue, replies, first_chunk, receive_at, did>>

localVars == <<local_vad_model, local_stt_pipeline, local_running, audio_buffer,
               silent_count, is_speaking, listen_at, heard>>

\* the state of the components the pipeline's own steps do not touch
restVars == <<stt_model, call, busVars, localVars, chatVars>>

\* The chunk the callback is appending.  A chunk is named by the number of the
\* segment it arrives in and its place in the buffer; the name of a chunk that
\* was discarded (and is referenced nowhere any more) is used again.
NewChunk == <<nflushed + 1, Len(speech_buffer) + 1>>

Range(s) == {s[i] : i \in 1..Len(s)}

\* the record of a step: the operation, the external calls it made in order and,
\* for a step of _handle_speech, the segment it worked on and the text it emitted
OpOn(name, calls, audio, text) == [op |-> name, calls |-> calls, audio |-> audio, text |-> text]

Op(name, calls) == OpOn(name, calls, <<>>, <<>>)

\* the number of the segment an audio buffer holds
SegmentOf(audio) == audio[1][1]

\* --------------------------------------------------------- sd.InputStream
\* stop(): the stream stops delivering callbacks; errors are ignored
StreamStop(ss, s) == [ss EXCEPT ![s] = IF @ \in {"active", "aborted"} THEN "stopped" ELSE @]

\* start(): a stopped stream becomes active; a stream that is not stopped is left as is
StreamStart(ss, s) == [ss EXCEPT ![s] = IF @ = "stopped" THEN "active" ELSE @]

StreamClose(ss, s) == [ss EXCEPT ![s] = "closed"]

Opened == {s \in StreamIds : streams[s] # "unopened"}
ActiveStreams == {s \in StreamIds : streams[s] = "active"}

\* the microphone is capturing: some input stream delivers callbacks
MicActive == ActiveStreams # {}

Init ==
    /\ running = FALSE
    /\ speech_buffer = <<>>
    /\ stream = NoStream
    /\ loop = FALSE
    /\ models_loaded = FALSE
    /\ gemini_client = FALSE
    /\ vad_model = FALSE
    /\ vad_is_speaking = FALSE
    /\ tts_model = FALSE
    /\ api_key \in BOOLEAN
    /\ streams = [s \in StreamIds |-> "unopened"]
    /\ loop_at = "idle"
    /\ starting = 0
    /\ synth = [t \in Texts |-> 0]
    /\ pending = {}
    /\ failed = {}
    /\ nflushed = 0
    /\ overChunk = NoChunk
    /\ last = Op("init", <<>>)
    /\ stt_model = FALSE
    /\ call = [op |-> "none"]
    /\ handlers = [t \in EventTypes |-> <<>>]
    /\ subs = <<>>
    /\ emit = NoEmit
    /\ local_vad_model = FALSE
    /\ local_stt_pipeline = FALSE
    /\ local_running = FALSE
    /\ audio_buffer = 0
    /\ silent_count = 0
    /\ is_speaking = FALSE
    /\ listen_at = "off"
    /\ heard = [op |-> "none"]
    /\ state = "WAITING"
    /\ recorded = 0
    /\ audio_in_queue = 0
    /\ replies = 0
    /\ first_chunk = TRUE
    /\ receive_at = "reading"
    /\ did = "none"

\* ------------------------------------------------------------ _load_models
\* _load_models (in a worker thread): returns at once when already loaded,
\* otherwise loads the VAD and the TTS model and sets the flag
LoadModels ==
    /\ vad_model' = TRUE
    /\ tts_model' = TRUE
    /\ models_loaded' = TRUE

\* ------------------------------------------------------------------ start()
\* start(), up to its await: the running check, then to_thread(_load_models)
StartCall ==
    /\ loop_at = "idle"
    /\ IF running
       THEN /\ last' = Op("start_noop", <<>>)
            /\ UNCHANGED starting
       ELSE /\ Cardinality(Opened) + starting < MaxStreams
            /\ starting' = starting + 1
            /\ last' = Op("start_await", <<>>)
    /\ UNCHANGED restVars
    /\ UNCHANGED <<pipeVars, vadVars, tts_model, api_key, streams, loop_at, synth,
                   pending, failed, nflushed, overChunk>>

\* vad.load() or tts.load() raises in the worker thread: start() raises at its await
StartLoadRaises ==
    /\ loop_at = "idle"
    /\ starting > 0
    /\ ~models_loaded
    /\ starting' = starting - 1
    /\ \E vadDone \in BOOLEAN : vad_model' = (vad_model \/ vadDone)
    /\ last' = Op("start_raised", <<>>)
    /\ UNCHANGED restVars
    /\ UNCHANGED <<pipeVars, vad_is_speaking, tts_model, api_key, streams, loop_at,
                   synth, pending, failed, nflushed, overChunk>>

\* the models are loaded and start() resumes: lines 60-61
StartLoaded ==
    /\ loop_at = "idle"
    /\ starting > 0
    /\ starting' = starting - 1
    /\ LoadModels
    /\ loop' = TRUE
    /\ running' = TRUE
    /\ loop_at' = "start_mid"
    /\ last' = Op("start_running", <<>>)
    /\ UNCHANGED restVars
    /\ UNCHANGED <<speech_buffer, stream, gemini_client, vad_is_speaking, api_key,
                   streams, synth, pending, failed, nflushed, overChunk>>

\* start() from line 62: the buffer is reset, the API key checked, the client
\* built and the input stream constructed and started
StartOpen ==
    /\ loop_at = "start_mid"
    /\ loop_at' = "idle"
    /\ speech_buffer' = <<>>
    /\ overChunk' = NoChunk
    /\ IF ~api_key
       THEN \* RuntimeError("HUGO_GEMINI_API_KEY not set")
            /\ last' = Op("start_raised", <<>>)
            /\ UNCHANGED <<stream, streams, gemini_client>>
       ELSE /\ gemini_client' = TRUE
            /\ \/ \* sd.InputStream(...) raises: no device
                  /\ last' = Op("start_raised", <<"InputStream">>)
                  /\ UNCHANGED <<stream, streams>>
               \/ \E s \in StreamIds :
                    /\ streams[s] = "unopened"
                    /\ \A r \in StreamIds : r < s => streams[r] # "unopened"
                    /\ stream' = s
                    /\ streams' = [streams EXCEPT ![s] = "active"]
                    /\ last' = Op("start_opened", <<"InputStream", "stream.start">>)
    /\ UNCHANGED restVars
    /\ UNCHANGED <<running, loop, models_loaded, vadVars, tts_model, api_key,
                   starting, synth, pending, failed, nflushed>>

\* ------------------------------------------------------------------- stop()
\* (variant) stop() that keeps the reference to the stream it closed
Stop_KeepsStream ==
    /\ loop_at = "idle"
    /\ running' = FALSE
    /\ IF stream # NoStream
       THEN /\ streams' = StreamClose(StreamStop(streams, stream), stream)
            /\ last' = Op("stop", <<"stream.stop", "stream.close">>)
       ELSE /\ last' = Op("stop", <<>>)
            /\ UNCHANGED streams
    /\ UNCHANGED restVars
    /\ UNCHANGED <<speech_buffer, stream, loop, models_loaded, gemini_client, vadVars,
                   tts_model, api_key, taskVars, nflushed, overChunk>>

\* (variant) stop() that also empties the segment buffer
Stop_Releases ==
    /\ loop_at = "idle"
    /\ running' = FALSE
    /\ speech_buffer' = <<>>
    /\ IF stream # NoStream
       THEN /\ streams' = StreamClose(StreamStop(streams, stream), stream)
            /\ stream' = NoStream
            /\ last' = Op("stop", <<"stream.stop", "stream.close">>)
       ELSE /\ last' = Op("stop", <<>>)
            /\ UNCHANGED <<stream, streams>>
    /\ UNCHANGED restVars
    /\ UNCHANGED <<loop, models_loaded, gemini_client, vadVars,
                   tts_model, api_key, taskVars, nflushed, overChunk>>

Stop ==
    /\ loop_at = "idle"
    /\ running' = FALSE
    /\ IF stream # NoStream
       THEN /\ streams' = StreamClose(StreamStop(streams, stream), stream)
            /\ stream' = NoStream
            /\ last' = Op("stop", <<"stream.stop", "stream.close">>)
       ELSE /\ last' = Op("stop", <<>>)
            /\ UNCHANGED <<stream, streams>>
    /\ UNCHANGED restVars
    /\ UNCHANGED <<speech_buffer, loop, models_loaded, gemini_client, vadVars,
                   tts_model, api_key, taskVars, nflushed, overChunk>>

\* ------------------------------------------------------------------ speak()
\* the finally clause of speak(): restart the current stream if still running
SpeakFinally(ss) ==
    IF stream # NoStream /\ running THEN StreamStart(ss, stream) ELSE ss

FinallyCalls ==
    IF stream # NoStream /\ running THEN <<"stream.start">> ELSE <<>>

\* tts.synthesize(text): the audio the model generates; the empty text yields no chunk
Synthesize(text) == IF text = "" THEN "empty" ELSE "audio"

InSynthesis == synth[""] + synth["hello"]

\* (variant) speak() that starts synthesis without stopping the input stream
SpeakCall_NoStop(text) ==
    /\ loop_at = "idle"
    /\ InSynthesis < MaxSpeaking
    /\ last' = Op("speak_await", <<"tts.synthesize">>)
    /\ synth' = [synth EXCEPT ![text] = @ + 1]
    /\ overChunk' = IF speech_buffer # <<>> /\ vad_is_speaking
                    THEN Head(speech_buffer) ELSE overChunk
    /\ UNCHANGED restVars
    /\ UNCHANGED <<pipeVars, vadVars, tts_model, api_key, streams, loop_at, starting,
                   pending, failed, nflushed>>

\* (variant) speak() that abandons the open segment: buffer emptied, VAD reset
SpeakCall_Abandons(text) ==
    /\ loop_at = "idle"
    /\ InSynthesis < MaxSpeaking
    /\ IF stream # NoStream
       THEN /\ streams' = StreamStop(streams, stream)
            /\ last' = Op("speak_await", <<"stream.stop", "tts.synthesize">>)
       ELSE /\ UNCHANGED streams
            /\ last' = Op("speak_await", <<"tts.synthesize">>)
    /\ synth' = [synth EXCEPT ![text] = @ + 1]
    /\ speech_buffer' = <<>>
    /\ vad_is_speaking' = FALSE
    /\ overChunk' = NoChunk
    /\ UNCHANGED restVars
    /\ UNCHANGED <<running, stream, loop, models_loaded, gemini_client, vad_model,
                   tts_model, api_key, loop_at, starting, pending, failed, nflushed>>

\* speak(text), up to its await: stop the input stream, then to_thread(tts.synthesize)
SpeakCall(text) ==
    /\ loop_at = "idle"
    /\ InSynthesis < MaxSpeaking
    /\ IF stream # NoStream
       THEN /\ streams' = StreamStop(streams, stream)
            /\ last' = Op("speak_await", <<"stream.stop", "tts.synthesize">>)
       ELSE /\ UNCHANGED streams
            /\ last' = Op("speak_await", <<"tts.synthesize">>)
    /\ synth' = [synth EXCEPT ![text] = @ + 1]
    /\ overChunk' = IF speech_buffer # <<>> /\ vad_is_speaking
                    THEN Head(speech_buffer) ELSE overChunk
    /\ UNCHANGED restVars
    /\ UNCHANGED <<pipeVars, vadVars, tts_model, api_key, loop_at, starting,
                   pending, failed, nflushed>>

\* (variant) speak() whose restart of the stream is not in a finally clause
SpeakSynthRaises_NoFinally(text) ==
    /\ loop_at = "idle"
    /\ synth[text] > 0
    /\ synth' = [synth EXCEPT ![text] = @ - 1]
    /\ last' = Op("speak_raised", <<>>)
    /\ UNCHANGED restVars
    /\ UNCHANGED <<pipeVars, vadVars, tts_model, api_key, streams, loop_at, starting,
                   pending, failed, nflushed, overChunk>>

\* tts.synthesize raises (model not loaded, or the model fails): the finally runs
SpeakSynthRaises(text) ==
    /\ loop_at = "idle"
    /\ synth[text] > 0
    /\ synth' = [synth EXCEPT ![text] = @ - 1]
    /\ streams' = SpeakFinally(streams)
    /\ last' = Op("speak_raised", FinallyCalls)
    /\ UNCHANGED restVars
    /\ UNCHANGED <<pipeVars, vadVars, tts_model, api_key, loop_at, starting,
                   pending, failed, nflushed, overChunk>>

\* synthesis returned and sd.play started the playback; sd.wait now blocks the loop
SpeakPlay(text) ==
    /\ loop_at = "idle"
    /\ synth[text] > 0
    /\ tts_model
    /\ synth' = [synth EXCEPT ![text] = @ - 1]
    /\ loop_at' = "playing"
    /\ last' = Op("speak_play", <<"sd.play">>)
    /\ UNCHANGED restVars
    /\ UNCHANGED <<pipeVars, vadVars, tts_model, api_key, streams, starting,
                   pending, failed, nflushed, overChunk>>

\* synthesis returned and sd.play raises (output device error): the finally runs
SpeakPlayRaises(text) ==
    /\ loop_at = "idle"
    /\ synth[text] > 0
    /\ tts_model
    /\ synth' = [synth EXCEPT ![text] = @ - 1]
    /\ streams' = SpeakFinally(streams)
    /\ last' = Op("speak_raised", <<"sd.play">> \o FinallyCalls)
    /\ UNCHANGED restVars
    /\ UNCHANGED <<pipeVars, vadVars, tts_model, api_key, loop_at, starting,
                   pending, failed, nflushed, overChunk>>

\* sd.wait returns: the playback is over and the finally runs
SpeakWaitDone ==
    /\ loop_at = "playing"
    /\ loop_at' = "idle"
    /\ streams' = SpeakFinally(streams)
    /\ last' = Op("speak_done", <<"sd.wait">> \o FinallyCalls)
    /\ UNCHANGED restVars
    /\ UNCHANGED <<pipeVars, vadVars, tts_model, api_key, starting, synth,
                   pending, failed, nflushed, overChunk>>

\* -------------------------------------------------------------------- VAD
\* (variant) process_chunk that reports speech_end on every silent chunk
ProcessChunk_EndOnSilence(was, conf) ==
    LET is == conf >= vad_threshold
    IN  [is_speaking |-> is,
         speech_start |-> ~was /\ is,
         speech_end |-> ~is,
         confidence |-> conf]

\* VoiceActivityDetector.process_chunk on a loaded model: the result for a
\* chunk of confidence conf when the stored _is_speaking was `was`
ProcessChunk(was, conf) ==
    LET is == conf >= vad_threshold
    IN  [is_speaking |-> is,
         speech_start |-> ~was /\ is,
         speech_end |-> was /\ ~is,
         confidence |-> conf]

\* (variant) the minimum duration compared with <= instead of <
TooShort_OrEqual(n) ==
    n * VAD_CHUNK_SAMPLES * MIN_SPEECH_DURATION_DEN <= MIN_SPEECH_DURATION_NUM * sample_rate

\* duration = n * VAD_CHUNK_SAMPLES / sample_rate; duration < MIN_SPEECH_DURATION
TooShort(n) ==
    n * VAD_CHUNK_SAMPLES * MIN_SPEECH_DURATION_DEN < MIN_SPEECH_DURATION_NUM * sample_rate

\* --------------------------------------------------------- _audio_callback
\* (variant) a callback that lets the VAD see the chunk before the running check
AudioCallback_VadFirst(s, conf) ==
    /\ streams[s] = "active"
    /\ vad_is_speaking' = (conf >= vad_threshold)
    /\ last' = Op(IF running THEN "callback" ELSE "callback_ignored", <<>>)
    /\ UNCHANGED restVars
    /\ UNCHANGED <<pipeVars, vad_model, tts_model, api_key, streams, taskVars,
                   nflushed, overChunk>>

\* (variant) a callback that does not buffer the chunk a segment starts with
AudioCallback_DropsFirst(s, conf) ==
    /\ streams[s] = "active"
    /\ IF ~running
       THEN /\ last' = Op("callback_ignored", <<>>)
            /\ UNCHANGED <<speech_buffer, vad_is_speaking, pending, nflushed, overChunk>>
       ELSE LET r == ProcessChunk(vad_is_speaking, conf)
                buf == IF r.is_speaking /\ vad_is_speaking
                       THEN Append(speech_buffer, NewChunk) ELSE speech_buffer
            IN  /\ vad_model
                /\ r.is_speaking => Len(speech_buffer) < MaxBuffer
                /\ IF r.speech_end /\ buf # <<>>
                   THEN /\ speech_buffer' = <<>>
                        /\ vad_is_speaking' = FALSE
                        /\ IF TooShort(Len(buf))
                           THEN /\ last' = Op("callback_discard", <<"vad.reset">>)
                                /\ overChunk' = NoChunk
                                /\ UNCHANGED <<pending, nflushed>>
                           ELSE /\ nflushed < MaxFlushed
                                /\ nflushed' = nflushed + 1
                                /\ UNCHANGED overChunk
                                /\ IF loop
                                   THEN /\ pending' = pending \cup {buf}
                                        /\ last' = Op("callback_flush",
                                                      <<"vad.reset", "call_soon_threadsafe">>)
                                   ELSE /\ UNCHANGED pending
                                        /\ last' = Op("callback_flush", <<"vad.reset">>)
                   ELSE /\ speech_buffer' = buf
                        /\ vad_is_speaking' = r.is_speaking
                        /\ last' = Op("callback", <<>>)
                        /\ UNCHANGED <<pending, overChunk, nflushed>>
    /\ UNCHANGED restVars
    /\ UNCHANGED <<running, stream, loop, models_loaded, gemini_client, vad_model,
                   tts_model, api_key, streams, loop_at, starting, synth, failed>>

\* (variant) a callback that schedules a flushed segment and keeps filling its buffer
AudioCallback_KeepsBuffer(s, conf) ==
    /\ streams[s] = "active"
    /\ IF ~running
       THEN /\ last' = Op("callback_ignored", <<>>)
            /\ UNCHANGED <<speech_buffer, vad_is_speaking, pending, nflushed, overChunk>>
       ELSE LET r == ProcessChunk(vad_is_speaking, conf)
                buf == IF r.is_speaking
                       THEN Append(speech_buffer, NewChunk) ELSE speech_buffer
            IN  /\ vad_model
                /\ r.is_speaking => Len(speech_buffer) < MaxBuffer
                /\ IF r.speech_end /\ buf # <<>>
                   THEN /\ speech_buffer' = IF TooShort(Len(buf)) THEN <<>> ELSE buf
                        /\ vad_is_speaking' = FALSE
                        /\ IF TooShort(Len(buf))
                           THEN /\ last' = Op("callback_discard", <<"vad.reset">>)
                                /\ overChunk' = NoChunk
                                /\ UNCHANGED <<pending, nflushed>>
                           ELSE /\ nflushed < MaxFlushed
                                /\ nflushed' = nflushed + 1
                                /\ UNCHANGED overChunk
                                /\ IF loop
                                   THEN /\ pending' = pending \cup {buf}
                                        /\ last' = Op("callback_flush",
                                                      <<"vad.reset", "call_soon_threadsafe">>)
                                   ELSE /\ UNCHANGED pending
                                        /\ last' = Op("callback_flush", <<"vad.reset">>)
                   ELSE /\ speech_buffer' = buf
                        /\ vad_is_speaking' = r.is_speaking
                        /\ last' = Op("callback", <<>>)
                        /\ UNCHANGED <<pending, overChunk, nflushed>>
    /\ UNCHANGED restVars
    /\ UNCHANGED <<running, stream, loop, models_loaded, gemini_client, vad_model,
                   tts_model, api_key, streams, loop_at, starting, synth, failed>>

\* The callback runs on the audio thread.  It is one step here: it may fall
\* between any two steps of the loop thread, also inside start() (between the
\* assignment of _running and the reset of the buffer) and during a playback.
\* One chunk delivered by the active stream s, scored conf by the VAD model.
AudioCallback(s, conf) ==
    /\ streams[s] = "active"
    /\ IF ~running
       THEN /\ last' = Op("callback_ignored", <<>>)
            /\ UNCHANGED <<speech_buffer, vad_is_speaking, pending, nflushed, overChunk>>
       ELSE LET r == ProcessChunk(vad_is_speaking, conf)
                buf == IF r.is_speaking
                       THEN Append(speech_buffer, NewChunk) ELSE speech_buffer
            IN  /\ vad_model
                /\ r.is_speaking => Len(speech_buffer) < MaxBuffer
                /\ IF r.speech_end /\ buf # <<>>
                   THEN /\ speech_buffer' = <<>>
                        /\ vad_is_speaking' = FALSE
                        /\ IF TooShort(Len(buf))
                           THEN /\ last' = Op("callback_discard", <<"vad.reset">>)
                                /\ overChunk' = NoChunk
                                /\ UNCHANGED <<pending, nflushed>>
                           ELSE /\ nflushed < MaxFlushed
                                /\ nflushed' = nflushed + 1
                                /\ UNCHANGED overChunk
                                /\ IF loop
                                   THEN /\ pending' = pending \cup {buf}
                                        /\ last' = Op("callback_flush",
                                                      <<"vad.reset", "call_soon_threadsafe">>)
                                   ELSE /\ UNCHANGED pending
                                        /\ last' = Op("callback_flush", <<"vad.reset">>)
                   ELSE /\ speech_buffer' = buf
                        /\ vad_is_speaking' = r.is_speaking
                        /\ last' = Op("callback", <<>>)
                        /\ UNCHANGED <<pending, overChunk, nflushed>>
    /\ UNCHANGED restVars
    /\ UNCHANGED <<running, stream, loop, models_loaded, gemini_client, vad_model,
                   tts_model, api_key, streams, loop_at, starting, synth, failed>>

\* vad.process_chunk raises (model not loaded, or the model call fails): nothing
\* in the callback catches it, so it leaves the callback; what the audio
\* library then does with the stream (keep or abort it) is not the pipeline's choice
AudioCallbackRaises(s) ==
    /\ streams[s] = "active"
    /\ running
    /\ \E after \in {"active", "aborted"} : streams' = [streams EXCEPT ![s] = after]
    /\ last' = Op("callback_raised", <<>>)
    /\ UNCHANGED restVars
    /\ UNCHANGED <<pipeVars, vadVars, tts_model, api_key, taskVars, nflushed, overChunk>>

\* ------------------------------------------------------------------ texts
\* a text is a sequence of one-character strings
Word_Transcribe == <<"T", "r", "a", "n", "s", "c", "r", "i", "b", "e">>
Word_transcribe == <<"t", "r", "a", "n", "s", "c", "r", "i", "b", "e">>
Word_audio == <<"a", "u", "d", "i", "o">>

\* what the Gemini backend may answer for a segment
RawOutputs ==
    { <<>>,
      <<" ">>,
      <<"a">>,
      <<" ", "h", "i", " ">>,
      <<" ", "b", "y", "e", " ">>,
      Word_Transcribe \o <<" ">> \o Word_audio }

RECURSIVE LStrip(_)
LStrip(t) == IF t # <<>> /\ Head(t) = " " THEN LStrip(Tail(t)) ELSE t

RECURSIVE RStrip(_)
RStrip(t) == IF t # <<>> /\ t[Len(t)] = " " THEN RStrip(SubSeq(t, 1, Len(t) - 1)) ELSE t

\* str.strip()
Strip(t) == RStrip(LStrip(t))

\* the capital letters of the texts used here
LowerChar(c) ==
    IF c = "T" THEN "t" ELSE IF c = "B" THEN "b" ELSE IF c = "Y" THEN "y" ELSE c

\* str.lower()
Lower(t) == [i \in 1..Len(t) |-> LowerChar(t[i])]

\* word in text
Contains(t, w) == \E i \in 1..(Len(t) - Len(w) + 1) : SubSeq(t, i, i + Len(w) - 1) = w

\* ----------------------------------------------------------- _handle_speech
\* (variant) the filters without the test on the length
Skipped_AnyLength(text) ==
    \/ text = <<>>
    \/ Contains(Lower(text), Word_transcribe) /\ Contains(Lower(text), Word_audio)

\* the filters of _handle_speech on the text _transcribe_with_gemini returned
Skipped(text) ==
    \/ text = <<>>
    \/ Len(Strip(text)) < 2
    \/ Contains(Lower(text), Word_transcribe) /\ Contains(Lower(text), Word_audio)

\* (variant) _handle_speech that emits an empty transcript when the call raises
HandleSpeechRaises_Emits(audio) ==
    /\ loop_at = "idle"
    /\ audio \in pending
    /\ pending' = pending \ {audio}
    /\ failed' = failed \cup {SegmentOf(audio)}
    /\ last' = OpOn("stt_emitted", <<"generate_content", "bus.emit">>, audio, <<>>)
    /\ UNCHANGED restVars
    /\ UNCHANGED <<pipeVars, vadVars, tts_model, api_key, streams, loop_at, starting,
                   synth, nflushed, overChunk>>

\* _transcribe_with_gemini raises (no client, or the API call fails): logged, dropped
HandleSpeechRaises(audio) ==
    /\ loop_at = "idle"
    /\ audio \in pending
    /\ pending' = pending \ {audio}
    /\ failed' = failed \cup {SegmentOf(audio)}
    /\ last' = OpOn("stt_failed", <<"generate_content">>, audio, <<>>)
    /\ UNCHANGED restVars
    /\ UNCHANGED <<pipeVars, vadVars, tts_model, api_key, streams, loop_at, starting,
                   synth, nflushed, overChunk>>

\* _transcribe_with_gemini returns raw.strip(); the text is filtered, then emitted
HandleSpeech(audio, raw) ==
    /\ loop_at = "idle"
    /\ audio \in pending
    /\ gemini_client
    /\ pending' = pending \ {audio}
    /\ LET text == Strip(raw)
       IN  IF Skipped(text)
           THEN last' = OpOn("stt_skipped", <<"generate_content">>, audio, <<>>)
           ELSE last' = OpOn("stt_emitted", <<"generate_content", "bus.emit">>,
                             audio, Strip(text))
    /\ UNCHANGED restVars
    /\ UNCHANGED <<pipeVars, vadVars, tts_model, api_key, streams, loop_at, starting,
                   synth, failed, nflushed, overChunk>>

\* --------------------------------------------------- the components alone
\* Direct calls on the module-level vad, stt and tts objects, as the tests make
\* them.  `call` records the call, its argument and whether it returned or raised.
Returned(name, arg, result) ==
    [op |-> name, arg |-> arg, raised |-> FALSE, result |-> result]

Raised(name, arg) ==
    [op |-> name, arg |-> arg, raised |-> TRUE, result |-> "RuntimeError: not loaded"]

pipelineVars ==
    <<pipeVars, api_key, streams, taskVars, nflushed, overChunk, last>>

\* VoiceActivityDetector.load()
VadLoad ==
    /\ vad_model' = TRUE
    /\ call' = Returned("vad.load", <<>>, <<>>)
    /\ UNCHANGED <<vad_is_speaking, tts_model, stt_model, pipelineVars, busVars, localVars, chatVars>>

\* (variant) process_chunk that stores the new state before it checks the model
VadProcessChunk_StoresFirst(conf) ==
    /\ vad_is_speaking' = (conf >= vad_threshold)
    /\ call' = IF vad_model
               THEN Returned("vad.process_chunk", conf, ProcessChunk(vad_is_speaking, conf))
               ELSE Raised("vad.process_chunk", conf)
    /\ UNCHANGED <<vad_model, tts_model, stt_model, pipelineVars, busVars, localVars, chatVars>>

\* VoiceActivityDetector.process_chunk on a chunk the model scores conf
VadProcessChunk(conf) ==
    /\ IF ~vad_model
       THEN /\ call' = Raised("vad.process_chunk", conf)
            /\ UNCHANGED vad_is_speaking
       ELSE LET r == ProcessChunk(vad_is_speaking, conf)
            IN  /\ vad_is_speaking' = r.is_speaking
                /\ call' = Returned("vad.process_chunk", conf, r)
    /\ UNCHANGED <<vad_model, tts_model, stt_model, pipelineVars, busVars, localVars, chatVars>>

\* VoiceActivityDetector.reset()
VadReset ==
    /\ vad_is_speaking' = FALSE
    /\ call' = Returned("vad.reset", <<>>, <<>>)
    /\ UNCHANGED <<vad_model, tts_model, stt_model, pipelineVars, busVars, localVars, chatVars>>

\* _HALLUCINATION_PHRASES
HALLUCINATION_PHRASES ==
    { <<"t", "h", "a", "n", "k", " ", "y", "o", "u">>,
      <<"t", "h", "a", "n", "k", "s", " ", "f", "o", "r", " ", "w", "a", "t", "c", "h", "i", "n", "g">>,
      <<"t", "h", "a", "n", "k", "s", " ", "f", "o", "r", " ", "l", "i", "s", "t", "e", "n", "i", "n", "g">>,
      <<"s", "u", "b", "s", "c", "r", "i", "b", "e">>,
      <<"l", "i", "k", "e", " ", "a", "n", "d", " ", "s", "u", "b", "s", "c", "r", "i", "b", "e">>,
      <<"b", "y", "e">>,
      <<"g", "o", "o", "d", "b", "y", "e">>,
      <<"y", "o", "u">>,
      <<"t", "h", "e", " ", "e", "n", "d">>,
      <<>> }

Punctuation == {".", "!", "?", ","}

\* str.rstrip(".!?,")
RECURSIVE RStripPunct(_)
RStripPunct(t) ==
    IF t # <<>> /\ t[Len(t)] \in Punctuation
    THEN RStripPunct(SubSeq(t, 1, Len(t) - 1)) ELSE t

\* " ".join(texts)
RECURSIVE Join(_)
Join(texts) ==
    IF texts = <<>> THEN <<>>
    ELSE IF Len(texts) = 1 THEN texts[1]
    ELSE texts[1] \o <<" ">> \o Join(Tail(texts))

\* the thresholds of the segment filter, and the values a segment may carry, in hundredths
NO_SPEECH_PROB_MAX == 40
AVG_LOGPROB_MIN == 0 - 80

\* a segment passes when no_speech_prob < 0.4 and avg_logprob > -0.8
SegmentPasses(seg) ==
    seg.no_speech_prob < NO_SPEECH_PROB_MAX /\ seg.avg_logprob > AVG_LOGPROB_MIN

SelectTexts(segs) ==
    LET kept == SelectSeq(segs, SegmentPasses)
    IN  [i \in 1..Len(kept) |-> kept[i].text]

\* what the Whisper model may return: a text, or segments (then the text is not read)
SttTexts ==
    { <<>>,
      <<" ">>,
      <<"h", "i">>,
      <<" ", " ", "h", "i", " ", " ">>,
      <<"b", "y", "e">>,
      <<" ", "B", "y", "e", ".", " ">>,
      <<"b", "y", "e", " ", ".">>,
      <<"B", "y", "e", "!", "?", ",">>,
      <<".">>,
      <<"b", "y">>,
      <<"b", "y", "e", " ", "b", "y", "e">>,
      <<"Y", "o", "u">>,
      <<" ", "T", "h", "e", " ", "e", "n", "d", "!", " ">>,
      <<"t", "h", "a", "n", "k", " ", "y", "o", "u">> }

Segments ==
    { [text |-> t, no_speech_prob |-> q[1], avg_logprob |-> q[2]] :
        t \in {<<" ", "h", "i">>, <<" ", "Y", "o", "u", ".">>},
        q \in {<<10, 0 - 50>>, <<40, 0 - 50>>, <<10, 0 - 80>>} }

SttResults ==
    [segments : {<<>>}, text : SttTexts]
      \cup [segments : UNION {[1..n -> Segments] : n \in 1..MaxSegments}, text : {<<>>}]

\* (variant) transcribe that compares the phrase without removing the punctuation
Transcribe_KeepsPunctuation(result) ==
    IF result.segments # <<>> /\ SelectTexts(result.segments) = <<>>
    THEN <<>>
    ELSE LET text == IF result.segments # <<>>
                     THEN Strip(Join(SelectTexts(result.segments)))
                     ELSE Strip(result.text)
         IN  IF Lower(text) \in HALLUCINATION_PHRASES THEN <<>> ELSE text

\* the text SpeechToText.transcribe returns for what the model generated
Transcribe(result) ==
    IF result.segments # <<>> /\ SelectTexts(result.segments) = <<>>
    THEN <<>>
    ELSE LET text == IF result.segments # <<>>
                     THEN Strip(Join(SelectTexts(result.segments)))
                     ELSE Strip(result.text)
         IN  IF RStripPunct(Lower(text)) \in HALLUCINATION_PHRASES THEN <<>> ELSE text

\* SpeechToText.load()
SttLoad ==
    /\ stt_model' = TRUE
    /\ call' = Returned("stt.load", <<>>, <<>>)
    /\ UNCHANGED <<vadVars, tts_model, pipelineVars, busVars, localVars, chatVars>>

\* SpeechToText.transcribe when the model generates `result`
SttTranscribe(result) ==
    /\ call' = IF ~stt_model
               THEN Raised("stt.transcribe", result)
               ELSE Returned("stt.transcribe", result, Transcribe(result))
    /\ UNCHANGED <<vadVars, tts_model, stt_model, pipelineVars, busVars, localVars, chatVars>>

\* TextToSpeech.load()
TtsLoad ==
    /\ tts_model' = TRUE
    /\ call' = Returned("tts.load", <<>>, <<>>)
    /\ UNCHANGED <<vadVars, stt_model, pipelineVars, busVars, localVars, chatVars>>

\* TextToSpeech.synthesize(text)
TtsSynthesize(text) ==
    /\ call' = IF ~tts_model
               THEN Raised("tts.synthesize", text)
               ELSE Returned("tts.synthesize", text, Synthesize(text))
    /\ UNCHANGED <<vadVars, tts_model, stt_model, pipelineVars, busVars, localVars, chatVars>>

\* ---------------------------------------------------------------- EventBus
\* The bus keeps one list object per event type.  on() appends to the list in
\* place; off() builds a new list and binds it to the type; emit() takes the
\* list bound to the type when it starts and walks it, awaiting each handler.
\* One step of emit is one handler run to its end; on() and off() calls made
\* while a handler is awaited (by the handler or by another task) fall between.
voiceVars == <<pipelineVars, vadVars, tts_model, stt_model, call, localVars, chatVars>>

Emitting == emit.status = "running"

\* the subscriptions of a type in the order made
SubscribedTo(t) ==
    LET mine == SelectSeq(subs, LAMBDA p : p[1] = t)
    IN  [i \in 1..Len(mine) |-> mine[i][2]]

\* [h for h in lst if h is not handler]
Without(lst, h) == SelectSeq(lst, LAMBDA x : x # h)

\* (variant) on() that puts the new handler in front
On_InFront(t, h) ==
    /\ Len(subs) < MaxSubs
    /\ handlers' = [handlers EXCEPT ![t] = <<h>> \o @]
    /\ subs' = Append(subs, <<t, h>>)
    /\ emit' = IF Emitting /\ emit.type = t
               THEN [emit EXCEPT !.touched = TRUE,
                                 !.list = IF emit.shared THEN <<h>> \o @ ELSE @]
               ELSE emit
    /\ UNCHANGED voiceVars

\* EventBus.on(t, h)
On(t, h) ==
    /\ Len(subs) < MaxSubs
    /\ handlers' = [handlers EXCEPT ![t] = Append(@, h)]
    /\ subs' = Append(subs, <<t, h>>)
    /\ emit' = IF Emitting /\ emit.type = t
               THEN [emit EXCEPT !.touched = TRUE,
                                 !.list = IF emit.shared THEN Append(@, h) ELSE @]
               ELSE emit
    /\ UNCHANGED voiceVars

\* EventBus.off(t, h): every occurrence of h leaves the list of t
Off(t, h) ==
    /\ handlers' = [handlers EXCEPT ![t] = Without(@, h)]
    /\ subs' = SelectSeq(subs, LAMBDA p : p # <<t, h>>)
    /\ emit' = IF Emitting /\ emit.type = t
               THEN [emit EXCEPT !.touched = TRUE, !.shared = FALSE]
               ELSE emit
    /\ UNCHANGED voiceVars

\* EventBus.emit(Event(t)), up to the first handler: returns at once when the
\* type has no handler
EmitCall(t) ==
    /\ ~Emitting
    /\ emit' = [status |-> IF handlers[t] = <<>> THEN "done" ELSE "running",
                type |-> t, list |-> handlers[t], shared |-> TRUE, idx |-> 1,
                invoked |-> <<>>, touched |-> FALSE]
    /\ UNCHANGED <<handlers, subs, voiceVars>>

\* (variant) emit that lets the exception of a handler end the loop
EmitInvoke_StopsOnRaise(raises) ==
    /\ Emitting
    /\ emit' = [emit EXCEPT
                  !.invoked = Append(@, [h |-> emit.list[emit.idx], raised |-> raises]),
                  !.idx = @ + 1,
                  !.status = IF raises \/ emit.idx = Len(emit.list)
                             THEN "done" ELSE "running"]
    /\ UNCHANGED <<handlers, subs, voiceVars>>

\* the next handler of the list is awaited and returns or raises (the exception
\* is logged); the loop then goes on, or ends when the list is exhausted
EmitInvoke(raises) ==
    /\ Emitting
    /\ emit' = [emit EXCEPT
                  !.invoked = Append(@, [h |-> emit.list[emit.idx], raised |-> raises]),
                  !.idx = @ + 1,
                  !.status = IF emit.idx = Len(emit.list) THEN "done" ELSE "running"]
    /\ UNCHANGED <<handlers, subs, voiceVars>>

\* ------------------------------------------- the local pipeline: listen()
\* src/src/voice/pipeline.py.  listen() is an async generator: its locals
\* (audio_buffer, silent_count, is_speaking) live from the call to the end of
\* the generator.  transcribe() has no await of its own, so a chunk and the
\* hand-off it triggers are one step, up to the yield or to asyncio.sleep(0).
local_vad_threshold == 50
silence_duration_ms == 700

\* (variant) the number of silent chunks rounded up
silence_chunks_RoundedUp == (silence_duration_ms + 29) \div 30

\* int(silence_duration_ms / 30)
silence_chunks == silence_duration_ms \div 30

otherVars == <<pipelineVars, vadVars, tts_model, stt_model, call, busVars, chatVars>>

\* what transcribe() may do with an utterance
TranscribeOutcomes == {"text", "empty", "failed"}

\* detect_voice_activity for a chunk the model scores conf
DetectVoiceActivity(conf) ==
    IF ~local_vad_model THEN FALSE ELSE conf > local_vad_threshold

Heard(name, conf, has_speech) ==
    [op |-> name, conf |-> conf, loaded |-> local_vad_model, has_speech |-> has_speech]

\* initialize(): the three loads are gathered; each may fail, and then
\* initialize() raises with the other models loaded
LocalInitialize(vadOk, sttOk) ==
    /\ local_vad_model' = (local_vad_model \/ vadOk)
    /\ local_stt_pipeline' = (local_stt_pipeline \/ sttOk)
    /\ heard' = [op |-> "initialize"]
    /\ UNCHANGED <<local_running, audio_buffer, silent_count, is_speaking, listen_at,
                   otherVars>>

\* listen() is called and iterated: the locals are set and the stream opened
ListenCall ==
    /\ listen_at = "off"
    /\ local_running' = TRUE
    /\ audio_buffer' = 0
    /\ silent_count' = 0
    /\ is_speaking' = FALSE
    /\ listen_at' = "loop"
    /\ heard' = [op |-> "listen"]
    /\ UNCHANGED <<local_vad_model, local_stt_pipeline, otherVars>>

\* one turn of the while loop on a chunk the VAD model scores conf; when the
\* utterance ends, transcribe() answers with `outcome`
ListenChunk(conf, outcome) ==
    /\ listen_at = "loop"
    /\ local_running
    /\ LET has_speech == DetectVoiceActivity(conf)
       IN  IF has_speech
           THEN /\ audio_buffer < MaxUtterance
                /\ is_speaking' = TRUE
                /\ audio_buffer' = audio_buffer + 1
                /\ silent_count' = 0
                /\ heard' = Heard("chunk", conf, has_speech)
                /\ UNCHANGED listen_at
           ELSE IF is_speaking
           THEN IF silent_count + 1 >= silence_chunks
                THEN IF ~local_stt_pipeline
                     THEN \* transcribe raises RuntimeError: it leaves listen()
                          /\ audio_buffer' = audio_buffer + 1
                          /\ silent_count' = silent_count + 1
                          /\ listen_at' = "off"
                          /\ heard' = Heard("handoff_raised", conf, has_speech)
                          /\ UNCHANGED is_speaking
                     ELSE IF outcome = "text"
                     THEN \* yield result: the generator is suspended
                          /\ audio_buffer' = audio_buffer + 1
                          /\ silent_count' = silent_count + 1
                          /\ listen_at' = "yielded"
                          /\ heard' = Heard("handoff_text", conf, has_speech)
                          /\ UNCHANGED is_speaking
                     ELSE \* empty text, or the error caught inside transcribe
                          /\ audio_buffer' = 0
                          /\ silent_count' = 0
                          /\ is_speaking' = FALSE
                          /\ heard' = Heard(IF outcome = "empty" THEN "handoff_empty"
                                            ELSE "handoff_failed", conf, has_speech)
                          /\ UNCHANGED listen_at
                ELSE /\ audio_buffer' = audio_buffer + 1
                     /\ silent_count' = silent_count + 1
                     /\ heard' = Heard("chunk", conf, has_speech)
                     /\ UNCHANGED <<is_speaking, listen_at>>
           ELSE /\ heard' = Heard("chunk", conf, has_speech)
                /\ UNCHANGED <<audio_buffer, silent_count, is_speaking, listen_at>>
    /\ UNCHANGED <<local_vad_model, local_stt_pipeline, local_running, otherVars>>

\* the consumer asks for the next result: the generator resumes after the yield
ListenResume ==
    /\ listen_at = "yielded"
    /\ audio_buffer' = 0
    /\ silent_count' = 0
    /\ is_speaking' = FALSE
    /\ listen_at' = "loop"
    /\ heard' = [op |-> "resume"]
    /\ UNCHANGED <<local_vad_model, local_stt_pipeline, local_running, otherVars>>

\* the consumer leaves its loop (as idle_loop does on the first result): the
\* generator is closed at the yield
ListenClose ==
    /\ listen_at = "yielded"
    /\ listen_at' = "off"
    /\ heard' = [op |-> "close"]
    /\ UNCHANGED <<local_vad_model, local_stt_pipeline, local_running, audio_buffer,
                   silent_count, is_speaking, otherVars>>

\* the while condition fails after stop(): listen() ends
ListenExit ==
    /\ listen_at = "loop"
    /\ ~local_running
    /\ listen_at' = "off"
    /\ heard' = [op |-> "exit"]
    /\ UNCHANGED <<local_vad_model, local_stt_pipeline, local_running, audio_buffer,
                   silent_count, is_speaking, otherVars>>

\* stop()
LocalStop ==
    /\ local_running' = FALSE
    /\ heard' = [op |-> "stop"]
    /\ UNCHANGED <<local_vad_model, local_stt_pipeline, audio_buffer, silent_count,
                   is_speaking, listen_at, otherVars>>

\* ----------------------------------------------- the terminal AudioLoop
\* src/main.py.  The tasks of the TaskGroup share `state`: handle_user_input
\* (the keyboard), listen_audio (the microphone), receive_audio (the session's
\* replies) and play_audio.  In PROCESSING handle_user_input only sleeps.
\* A send with end_of_turn that succeeds makes the session owe one reply turn.
notChatVars == <<pipelineVars, vadVars, tts_model, stt_model, call, busVars, localVars>>

\* WAITING, Enter: start_recording()
StartRecording ==
    /\ state = "WAITING"
    /\ state' = "RECORDING"
    /\ recorded' = 0
    /\ did' = "start_recording"
    /\ UNCHANGED <<audio_in_queue, replies, first_chunk, receive_at, notChatVars>>

\* listen_audio while RECORDING: one chunk read and appended
RecordChunk ==
    /\ state = "RECORDING"
    /\ recorded < MaxRecorded
    /\ recorded' = recorded + 1
    /\ did' = "record"
    /\ UNCHANGED <<state, audio_in_queue, replies, first_chunk, receive_at, notChatVars>>

\* RECORDING, Enter: stop_recording(); session.send returns or raises, and the
\* exception is caught and printed by handle_user_input
StopRecording(sendOk) ==
    /\ state = "RECORDING"
    /\ sendOk => replies < MaxReplies
    /\ IF recorded > 0
       THEN /\ state' = "PROCESSING"
            /\ replies' = IF sendOk THEN replies + 1 ELSE replies
            /\ did' = IF sendOk THEN "stop_recording" ELSE "stop_recording_raised"
       ELSE /\ state' = "WAITING"
            /\ did' = "stop_recording_empty"
            /\ UNCHANGED replies
    /\ UNCHANGED <<recorded, audio_in_queue, first_chunk, receive_at, notChatVars>>

\* WAITING, a text typed: send_text_message(text)
SendTextMessage(sendOk) ==
    /\ state = "WAITING"
    /\ sendOk => replies < MaxReplies
    /\ state' = "PROCESSING"
    /\ replies' = IF sendOk THEN replies + 1 ELSE replies
    /\ did' = IF sendOk THEN "send_text" ELSE "send_text_raised"
    /\ UNCHANGED <<recorded, audio_in_queue, first_chunk, receive_at, notChatVars>>

\* PLAYING, Enter: interrupt_playback()
InterruptPlayback ==
    /\ state = "PLAYING"
    /\ audio_in_queue' = 0
    /\ state' = "RECORDING"
    /\ recorded' = 0
    /\ did' = "interrupt"
    /\ UNCHANGED <<replies, first_chunk, receive_at, notChatVars>>

\* receive_audio: a response with audio data of the turn being read
ReceiveData ==
    /\ receive_at = "reading"
    /\ replies > 0
    /\ LET starts == first_chunk /\ state = "PROCESSING"
           now == IF starts THEN "PLAYING" ELSE state
       IN  /\ state' = now
           /\ first_chunk' = IF starts THEN FALSE ELSE first_chunk
           /\ now = "PLAYING" => audio_in_queue < MaxQueued
           /\ audio_in_queue' = IF now = "PLAYING" THEN audio_in_queue + 1
                                ELSE audio_in_queue
    /\ did' = "receive_data"
    /\ UNCHANGED <<recorded, replies, receive_at, notChatVars>>

\* receive_audio: a response with text only is printed
ReceiveText ==
    /\ receive_at = "reading"
    /\ replies > 0
    /\ did' = "receive_text"
    /\ UNCHANGED <<state, recorded, audio_in_queue, replies, first_chunk, receive_at,
                   notChatVars>>

\* receive_audio: the turn is complete; in PLAYING it first sleeps 0.5 s
TurnComplete ==
    /\ receive_at = "reading"
    /\ replies > 0
    /\ IF state = "PLAYING"
       THEN /\ receive_at' = "settling"
            /\ UNCHANGED <<audio_in_queue, replies, first_chunk>>
       ELSE /\ audio_in_queue' = 0
            /\ replies' = replies - 1
            /\ first_chunk' = TRUE
            /\ UNCHANGED receive_at
    /\ did' = "turn_complete"
    /\ UNCHANGED <<state, recorded, notChatVars>>

\* receive_audio after the sleep: WAITING is set, the queue emptied
TurnSettled ==
    /\ receive_at = "settling"
    /\ receive_at' = "reading"
    /\ state' = "WAITING"
    /\ audio_in_queue' = 0
    /\ replies' = replies - 1
    /\ first_chunk' = TRUE
    /\ did' = "turn_settled"
    /\ UNCHANGED <<recorded, notChatVars>>

\* receive_audio: reading the turn raises; printed, and after 1 s the loop
\* reads the next turn
ReceiveRaises ==
    /\ receive_at = "reading"
    /\ replies > 0
    /\ replies' = replies - 1
    /\ first_chunk' = TRUE
    /\ did' = "receive_raised"
    /\ UNCHANGED <<state, recorded, audio_in_queue, receive_at, notChatVars>>

\* play_audio while PLAYING: one chunk taken from the queue and written
PlayChunk ==
    /\ state = "PLAYING"
    /\ audio_in_queue > 0
    /\ audio_in_queue' = audio_in_queue - 1
    /\ did' = "play"
    /\ UNCHANGED <<state, recorded, replies, first_chunk, receive_at, notChatVars>>

\* ------------------------------------------------------------ specification
\* The lifecycle: every interleaving of start(), stop() and speak() coroutines
\* with the audio callback, on utterances of at most MaxBurst chunks.
Next ==
    \/ StartCall
    \/ StartLoadRaises
    \/ StartLoaded
    \/ StartOpen
    \/ Stop
    \/ \E text \in Texts : SpeakCall(text)
    \/ \E text \in Texts : SpeakSynthRaises(text)
    \/ \E text \in Texts : SpeakPlay(text)
    \/ \E text \in Texts : SpeakPlayRaises(text)
    \/ SpeakWaitDone
    \/ \E s \in StreamIds, conf \in ConfValues :
          AudioCallback(s, conf) /\ Len(speech_buffer') <= MaxBurst
    \/ \E s \in StreamIds : AudioCallbackRaises(s)

Spec == Init /\ [][Next]_vars

\* Listening: one start(), then the callback on utterances of any length, the
\* transcription tasks, speak() calls one at a time, and stop().
NextListen ==
    \/ StartCall /\ Opened = {} /\ starting = 0
    \/ StartLoaded
    \/ StartOpen
    \/ Stop
    \/ \E text \in Texts : SpeakCall(text) /\ InSynthesis = 0
    \/ \E text \in Texts : SpeakSynthRaises(text)
    \/ \E text \in Texts : SpeakPlay(text)
    \/ SpeakWaitDone
    \/ \E s \in StreamIds, conf \in ConfValues : AudioCallback(s, conf)
    \/ \E s \in StreamIds : AudioCallbackRaises(s)
    \/ \E audio \in pending : HandleSpeechRaises(audio)
    \/ \E audio \in pending, raw \in RawOutputs : HandleSpeech(audio, raw)

SpecListen == Init /\ [][NextListen]_vars

\* The components on their own: loads and direct calls in any order.
NextParts ==
    \/ VadLoad
    \/ \E conf \in ConfValues : VadProcessChunk(conf)
    \/ VadReset
    \/ SttLoad
    \/ \E result \in SttResults : SttTranscribe(result)
    \/ TtsLoad
    \/ \E text \in Texts : TtsSynthesize(text)

SpecParts == Init /\ [][NextParts]_vars

\* The event bus: subscriptions, removals and emits in any order.
NextBus ==
    \/ \E t \in EventTypes, h \in Handlers : On(t, h)
    \/ \E t \in EventTypes, h \in Handlers : Off(t, h)
    \/ \E t \in EventTypes : EmitCall(t)
    \/ \E raises \in BOOLEAN : EmitInvoke(raises)

SpecBus == Init /\ [][NextBus]_vars

\* The local pipeline: initialize(), listen() on any chunks, and stop().
NextLocal ==
    \/ \E vadOk \in BOOLEAN, sttOk \in BOOLEAN : LocalInitialize(vadOk, sttOk)
    \/ ListenCall
    \/ \E conf \in ConfValues, outcome \in TranscribeOutcomes : ListenChunk(conf, outcome)
    \/ ListenResume
    \/ ListenClose
    \/ ListenExit
    \/ LocalStop

SpecLocal == Init /\ [][NextLocal]_vars

\* The terminal chat: the keyboard, the microphone, the session's replies and
\* the playback, in any order.  Every task of the TaskGroup keeps being
\* scheduled and the session delivers the turns it owes, hence the fairness.
NextChat ==
    \/ StartRecording
    \/ RecordChunk
    \/ \E sendOk \in BOOLEAN : StopRecording(sendOk)
    \/ \E sendOk \in BOOLEAN : SendTextMessage(sendOk)
    \/ InterruptPlayback
    \/ ReceiveData
    \/ ReceiveText
    \/ TurnComplete
    \/ TurnSettled
    \/ ReceiveRaises
    \/ PlayChunk

SpecChat == Init /\ [][NextChat]_vars /\ WF_vars(NextChat)

\* ------------------------------------------------------------------ claims
CountCalls(calls, c) == Cardinality({i \in 1..Len(calls) : calls[i] = c})

SpeakOps == {"speak_await", "speak_play", "speak_raised", "speak_done"}
SpeakExitOps == {"speak_raised", "speak_done"}
CallbackOps == {"callback", "callback_discard", "callback_flush"}

\* C1 (as claimed): no input stream is active at any moment between sd.play and
\* the return of sd.wait, whatever the interleaving of start(), stop(), speak().
C1_NoCaptureDuringPlayback == ~(loop_at = "playing" /\ MicActive)

\* C2: a speak() call made while the pipeline holds an input stream stops that
\* stream first: stream.stop() is the call's first external call, made before
\* synthesis is started, and when the call suspends on synthesis the stream is
\* not active and nothing has been played.
C2_StopBeforeSynthesis ==
    [][(last'.op = "speak_await" /\ stream # NoStream)
         => /\ last'.calls = <<"stream.stop", "tts.synthesize">>
            /\ stream' = stream
            /\ streams'[stream] # "active"
            /\ loop_at' = "idle"]_vars

C2_Witness ==
    /\ last.op = "speak_await"
    /\ running
    /\ stream # NoStream
    /\ streams[stream] = "stopped"
    /\ last.calls[1] = "stream.stop"

\* C3: when speak() exits on a running pipeline that holds an input stream,
\* after playback or after synthesis or playback raised, stream.start() is
\* called exactly once, as the last call and after sd.wait, and the stream is
\* not left stopped.
C3_CaptureRestored ==
    [][(last'.op \in SpeakExitOps /\ running /\ stream # NoStream)
         => /\ CountCalls(last'.calls, "stream.start") = 1
            /\ last'.calls[Len(last'.calls)] = "stream.start"
            /\ last'.op = "speak_done" => last'.calls = <<"sd.wait", "stream.start">>
            /\ streams[stream] = "stopped" => streams'[stream] = "active"
            /\ streams'[stream] # "stopped"
            /\ stream' = stream /\ running']_vars

C3_Witness ==
    /\ last.op = "speak_raised"
    /\ last.calls = <<"stream.start">>
    /\ running
    /\ stream # NoStream
    /\ streams[stream] = "active"

C5_MinimumDuration ==
    [][(last'.op \in CallbackOps /\ vad_is_speaking /\ ~vad_is_speaking'
          /\ speech_buffer # <<>>)
         => /\ speech_buffer' = <<>>
            /\ IF Len(speech_buffer) >= 25
               THEN /\ last'.op = "callback_flush"
                    /\ speech_buffer \notin pending
                    /\ pending' = pending \cup {speech_buffer}
               ELSE /\ last'.op = "callback_discard"
                    /\ pending' = pending]_vars

C5_Witness ==
    /\ last.op = "callback_flush"
    /\ \E audio \in pending : Len(audio) = 25 /\ SegmentOf(audio) = nflushed

\* C6: when the transcription of a segment raises, no event is emitted for that
\* segment (then or later), the task is gone, and the pipeline's running flag,
\* stream, buffer and VAD state are as before; later segments are still handled.
C6_FailureIsDropped ==
    [][/\ last'.op = "stt_failed"
          => /\ pending' = pending \ {last'.audio}
             /\ last'.audio \in pending
             /\ CountCalls(last'.calls, "bus.emit") = 0
             /\ UNCHANGED <<running, stream, streams, speech_buffer, vad_is_speaking,
                            loop_at>>
       /\ last'.op = "stt_emitted" => SegmentOf(last'.audio) \notin failed']_vars

C6_Witness ==
    /\ last.op = "stt_emitted"
    /\ \E f \in failed : f < SegmentOf(last.audio)
    /\ running
    /\ stream # NoStream
    /\ streams[stream] = "active"

\* C7 (as claimed): no exception ever leaves the audio callback.
C7_CallbackNeverRaises == last.op # "callback_raised"

\* C8 (as claimed): start() calls with no stop() in between open one input
\* stream: at most one stream is open (constructed and not closed) at a time.
C8_OneStreamOpen ==
    Cardinality({s \in StreamIds : streams[s] \in {"active", "stopped", "aborted"}}) <= 1

\* C9: stop() ends with running false and the stream stopped, closed and
\* absent; on a pipeline that is already stopped (or was never started) it
\* makes no stream call and changes nothing.
C9_StopIdempotent ==
    [][last'.op = "stop"
         => /\ ~running'
            /\ stream' = NoStream
            /\ stream # NoStream => streams'[stream] = "closed"
            /\ (~running /\ stream = NoStream)
               => /\ last'.calls = <<>>
                  /\ UNCHANGED <<pipeVars, vadVars, tts_model, api_key, streams,
                                 taskVars, nflushed, overChunk>>]_vars

C9_Witness ==
    /\ last.op = "stop"
    /\ last.calls = <<>>
    /\ \E s \in StreamIds : streams[s] = "closed"
    /\ ~running
    /\ stream = NoStream

\* C10 (as claimed): after stop() returns the segment buffer is empty.
C10_BufferReleasedByStop == last.op = "stop" => speech_buffer = <<>>

\* C10 (amended): stop() leaves the segment buffer as it is; the buffer is
\* emptied by the next start(), when it resumes after loading the models.
C10_BufferKeptUntilStart ==
    [][/\ last'.op = "stop" => speech_buffer' = speech_buffer
       /\ last'.op \in {"start_opened", "start_raised"} /\ loop_at = "start_mid"
          => speech_buffer' = <<>>]_vars

C10_Witness ==
    /\ last.op = "stop"
    /\ speech_buffer # <<>>
    /\ ~running

\* C11 (as claimed): no TranscriptEvent is emitted once stop() has set running
\* to false, also when a transcription scheduled before stop() completes later.
C11_NoEventAfterStop == last.op = "stt_emitted" => running

\* the conditions of C12 on a text, written from the claim
HasBothWords(t) ==
    Contains(Lower(t), Word_transcribe) /\ Contains(Lower(t), Word_audio)

Presentable(t) ==
    /\ t # <<>> => (Head(t) # " " /\ t[Len(t)] # " ")
    /\ Len(t) >= 2
    /\ ~HasBothWords(t)

\* C12: every emitted transcript has no leading or trailing whitespace, at
\* least 2 characters, and does not contain both "transcribe" and "audio"
\* (case-insensitively); a result of the backend that fails one of these after
\* stripping ends its task with no event and no error, the pipeline unchanged.
C12_EmittedTextFiltered ==
    [][/\ last'.op = "stt_emitted" => Presentable(last'.text)
       /\ \A audio \in pending, raw \in RawOutputs :
             (HandleSpeech(audio, raw) /\ ~Presentable(Strip(raw)))
                => /\ last'.op = "stt_skipped"
                   /\ CountCalls(last'.calls, "bus.emit") = 0
                   /\ UNCHANGED <<pipeVars, vadVars, streams, failed>>]_vars

C12_Witness ==
    /\ last.op = "stt_emitted"
    /\ last.text = <<"h", "i">>
    /\ CountCalls(last.calls, "bus.emit") = 1

\* C14 (as claimed): when the backend of the pipeline answers a known
\* hallucination phrase (here " bye ") for a flushed segment, no
\* TranscriptEvent is emitted for that segment.
C14_HallucinationNotEmitted ==
    last.op = "stt_emitted" => last.text # <<"b", "y", "e">>

\* C13: SpeechToText.transcribe returns the empty text when the model's output,
\* stripped and in lower case, is a hallucination phrase followed by nothing
\* but punctuation marks (and when every segment was filtered out); for every
\* other output it returns the stripped text as it is.
C13_ModelOutput(result) ==
    IF result.segments # <<>> THEN Join(SelectTexts(result.segments)) ELSE result.text

C13_IsHallucination(t) ==
    \E k \in 0..Len(t) :
        /\ SubSeq(Lower(t), 1, k) \in HALLUCINATION_PHRASES
        /\ \A i \in (k + 1)..Len(t) : t[i] \in Punctuation

C13_HallucinationsFiltered ==
    (call.op = "stt.transcribe" /\ ~call.raised)
      => LET result == call.arg
             allFiltered == /\ result.segments # <<>>
                            /\ \A i \in 1..Len(result.segments) :
                                  ~SegmentPasses(result.segments[i])
             text == Strip(C13_ModelOutput(result))
         IN  call.result = IF allFiltered \/ C13_IsHallucination(text) THEN <<>> ELSE text

C13_Witness ==
    /\ call.op = "stt.transcribe"
    /\ ~call.raised
    /\ call.arg.text = <<" ", "B", "y", "e", ".", " ">>
    /\ call.result = <<>>

\* C15 (as claimed): speak("") makes no play call on the output device.
C15_EmptyTextNotPlayed ==
    [][(last'.op = "speak_play" /\ synth'[""] < synth[""])
         => CountCalls(last'.calls, "sd.play") = 0]_vars

\* C16 (as claimed): the number of chunks in the open segment buffer stays
\* below a fixed bound whatever the VAD confidences are; the bound tried is the
\* largest length the buffer is followed to here.
C16_BufferBounded == Len(speech_buffer) < MaxBuffer

\* C17: a process_chunk call on a loaded VAD reports speech_start exactly when
\* the stored is_speaking was false and the call's is true, speech_end exactly
\* when it was true and the call's is false, never both, and stores the call's
\* is_speaking; after reset() the stored is_speaking is false.
C17_Edges ==
    [][/\ (call'.op = "vad.process_chunk" /\ ~call'.raised)
          => LET r == call'.result
             IN  /\ r.speech_start <=> (~vad_is_speaking /\ r.is_speaking)
                 /\ r.speech_end <=> (vad_is_speaking /\ ~r.is_speaking)
                 /\ ~(r.speech_start /\ r.speech_end)
                 /\ r.is_speaking <=> (call'.arg >= vad_threshold)
                 /\ vad_is_speaking' = r.is_speaking
       /\ call'.op = "vad.reset" => ~vad_is_speaking']_vars

C17_Witness ==
    /\ call.op = "vad.process_chunk"
    /\ ~call.raised
    /\ call.result.speech_end
    /\ ~call.result.speech_start
    /\ ~vad_is_speaking

\* C18: a chunk delivered to the callback while the pipeline is not running is
\* ignored: the VAD state, the segment buffer and the scheduled transcriptions
\* (and everything else) are left as they were, and nothing is called.
C18_IgnoredWhenNotRunning ==
    [][(last'.op \in CallbackOps \cup {"callback_ignored", "callback_raised"} /\ ~running)
         => /\ last'.op = "callback_ignored"
            /\ last'.calls = <<>>
            /\ UNCHANGED <<vad_is_speaking, speech_buffer, pending, pipeVars, vadVars,
                           streams, taskVars, nflushed>>]_vars

C18_Witness ==
    /\ last.op = "callback_ignored"
    /\ ~running
    /\ MicActive
    /\ speech_buffer # <<>>
    /\ vad_is_speaking

C20_Invoked(e) == [i \in 1..Len(e.invoked) |-> e.invoked[i].h]

\* C20: an emit during which no on() or off() was made on its type invokes
\* exactly the handlers subscribed to the event's type (added by on() and not
\* removed by off() since), once for every on() call and in the order of the
\* on() calls; handlers of other types are not invoked; with no handler
\* subscribed it invokes nothing; emit changes no subscription.
C20_EmitInvokesSubscribed ==
    [][/\ (emit'.status = "done" /\ emit' # emit /\ ~emit'.touched)
          => /\ C20_Invoked(emit') = SubscribedTo(emit'.type)
             /\ \A i \in 1..Len(emit'.invoked) :
                   <<emit'.type, emit'.invoked[i].h>> \in Range(subs)
       /\ (emit' # emit /\ emit'.status # "none"
              /\ (emit.status # "running" \/ emit'.invoked # emit.invoked))
          => handlers' = handlers /\ subs' = subs]_vars

C20_Witness ==
    /\ emit.status = "done"
    /\ ~emit.touched
    /\ emit.type = "voice:speak"
    /\ C20_Invoked(emit) = <<"hb", "ha">>
    /\ handlers["transcript:ready"] = <<"ha">>
    /\ Len(subs) = 3

\* C21: when a handler raises during emit, the loop goes on: every handler
\* that follows it in the list of the type is still invoked, in order, and the
\* emit completes (the exception is logged, never raised by emit).
C21_RaisingHandlerIsolated ==
    [][/\ (Emitting /\ emit'.invoked # emit.invoked)
          => /\ emit'.status = IF emit.idx < Len(emit.list) THEN "running" ELSE "done"
             /\ emit'.idx = emit.idx + 1
             /\ emit'.invoked[Len(emit'.invoked)].h = emit.list[emit.idx]
       /\ (emit'.status = "done" /\ emit' # emit)
          => /\ Len(emit'.invoked) = Len(emit'.list)
             /\ \A i \in 1..Len(emit'.list) : emit'.invoked[i].h = emit'.list[i]]_vars

C21_Witness ==
    /\ emit.status = "done"
    /\ Len(emit.invoked) = 3
    /\ emit.invoked[1].raised
    /\ emit.invoked[2].raised
    /\ ~emit.invoked[3].raised
    /\ emit.invoked[2].h # emit.invoked[1].h

\* C28 (as claimed): the handlers one emit invokes are fixed when it begins:
\* no on() or off() made while the emit is in progress changes the list it walks.
C28_HandlerSetFixed ==
    [][(Emitting /\ Emitting') => emit'.list = emit.list]_vars

\* C22 (as claimed): vad.reset() is called exactly once on every true -> false
\* edge of is_speaking seen by the callback, whatever start(), stop() and
\* speak() calls are interleaved with the chunks.
C22_ResetOnEveryEdge ==
    [][(last'.op \in CallbackOps /\ vad_is_speaking /\ ~vad_is_speaking')
         => CountCalls(last'.calls, "vad.reset") = 1]_vars

\* C26 (as claimed): when start() has opened the stream the segment buffer is
\* empty and the VAD's is_speaking is false.
C26_StartsClean ==
    last.op = "start_opened" => (speech_buffer = <<>> /\ ~vad_is_speaking)

\* C27 (as claimed): whenever no start() is in progress, running implies that
\* the pipeline holds an input stream (a start() that raised left it stopped).
C27_RunningHasStream ==
    (running /\ loop_at = "idle") => stream # NoStream

\* C23: while listening, every chunk classified as speech is appended to the
\* open segment in arrival order and nothing else changes the buffer; on the
\* speech_end edge the whole buffer, and nothing else, is handed to
\* transcription or discarded, and the buffer is emptied.  So a segment is the
\* run of speech chunks from a speech_start edge to the next speech_end edge,
\* and every speech chunk is in exactly one segment.
C23_InOrder(audio, seg) == audio = [i \in 1..Len(audio) |-> <<seg, i>>]

C23_NoAudioLost ==
    [][/\ last'.op \in CallbackOps
          => IF vad_is_speaking'
             THEN /\ speech_buffer' = Append(speech_buffer, NewChunk)
                  /\ pending' = pending
                  /\ last'.op = "callback"
             ELSE IF vad_is_speaking
                  THEN /\ speech_buffer' = <<>>
                       /\ speech_buffer # <<>>
                       /\ pending' \in {pending, pending \cup {speech_buffer}}
                       /\ last'.op = "callback_flush" <=> pending' # pending
                  ELSE UNCHANGED <<speech_buffer, pending>>
       /\ last'.op \notin CallbackOps => speech_buffer' = speech_buffer
       /\ vad_is_speaking' <=> speech_buffer' # <<>>
       /\ C23_InOrder(speech_buffer', nflushed' + 1)
       /\ \A audio \in pending' :
             /\ C23_InOrder(audio, SegmentOf(audio))
             /\ SegmentOf(audio) <= nflushed'
             /\ \A other \in pending' : SegmentOf(other) = SegmentOf(audio) => other = audio]_vars

C23_Witness ==
    /\ last.op = "callback_flush"
    /\ nflushed = 2
    /\ Cardinality(pending) = 2

\* C24: the callback never waits for a transcription: a flush empties the
\* buffer and only schedules the task (no backend call is made in the
\* callback); while transcriptions are in flight the callback goes on taking
\* chunks into a new segment, and no callback step removes or changes the
\* audio of a transcription in flight.
C24_CallbackDoesNotWait ==
    [][last'.op \in CallbackOps \cup {"callback_ignored", "callback_raised"}
         => /\ pending \subseteq pending'
            /\ CountCalls(last'.calls, "generate_content") = 0
            /\ last'.op = "callback_flush"
               => /\ speech_buffer' = <<>>
                  /\ last'.calls = <<"vad.reset", "call_soon_threadsafe">>
                  /\ pending' = pending \cup {speech_buffer}]_vars

C24_Witness ==
    /\ last.op = "callback"
    /\ pending # {}
    /\ Len(speech_buffer) >= 2
    /\ \A audio \in pending : Range(audio) \cap Range(speech_buffer) = {}
    /\ running

LocalChunkOps ==
    {"chunk", "handoff_raised", "handoff_text", "handoff_empty", "handoff_failed"}

\* C25 (as claimed): detect_voice_activity on a loaded model classifies a
\* chunk as speech exactly when its confidence is at least the threshold 0.5.
C25_SpeechAtThreshold ==
    (heard.op \in LocalChunkOps /\ heard.loaded)
      => (heard.has_speech <=> heard.conf >= 50)

\* C30: in listen() an utterance is handed to transcription exactly on the
\* 23rd (700 / 30, rounded down) consecutive chunk without speech after at
\* least one chunk with speech; a chunk with speech sets the silence count to
\* zero; chunks without speech before any speech are not buffered; and when
\* the loop goes on after a hand-off (transcription gave text and the consumer
\* asked for more, gave no text, or failed inside transcribe) the buffer is
\* empty, the silence count zero and is_speaking false.
C30_HandOff ==
    [][/\ heard'.op \in LocalChunkOps
          => /\ (heard'.op # "chunk")
                  <=> (~heard'.has_speech /\ is_speaking /\ silent_count + 1 = 23)
             /\ heard'.has_speech
                  => /\ silent_count' = 0
                     /\ is_speaking'
                     /\ audio_buffer' = audio_buffer + 1
             /\ (~heard'.has_speech /\ ~is_speaking)
                  => /\ audio_buffer = 0
                     /\ UNCHANGED <<audio_buffer, silent_count, is_speaking>>
             /\ (~heard'.has_speech /\ is_speaking /\ heard'.op = "chunk")
                  => /\ silent_count' = silent_count + 1
                     /\ audio_buffer' = audio_buffer + 1
                     /\ is_speaking'
       /\ (heard'.op \in {"handoff_empty", "handoff_failed", "resume"})
          => /\ audio_buffer' = 0
             /\ silent_count' = 0
             /\ ~is_speaking'
             /\ listen_at' = "loop"
       /\ heard'.op = "handoff_text" <=> (listen_at' = "yielded" /\ listen_at = "loop")
       /\ heard'.op = "resume" => listen_at = "yielded"
       /\ silent_count' <= 23
       /\ listen_at' = "loop" => silent_count' < 23]_vars

C30_Witness ==
    /\ heard.op = "handoff_failed"
    /\ listen_at = "loop"
    /\ audio_buffer = 0
    /\ silent_count = 0
    /\ ~is_speaking
    /\ heard.conf = 50
    /\ local_running

\* C29 (as claimed): the conversation is never wedged in PROCESSING: whenever
\* the state is PROCESSING it later becomes PLAYING or WAITING.
C29_NeverWedged == (state = "PROCESSING") ~> (state \in {"PLAYING", "WAITING"})

====
